---------------------------- MODULE Spec2Model ----------------------------
(***************************************************************************)
(* LinScan: an uncompressed inverted index with coordinate-at-a-time       *)
(* scoring (src/src/index.rs) and its batch front end (src/src/lib.rs).    *)
(*                                                                         *)
(* Abstractions.  f32 weights and scores are integers, so accumulation is  *)
(* exact and rounding is not modelled.  The weight alphabet is scaled so   *)
(* that the smallest score the model can produce is exactly F32_MIN, the   *)
(* least finite f32 (in the program: document {c: f32::MIN} scored with    *)
(* query {c: 1.0}); no score overflows, and NaN is not modelled.           *)
(* A HashMap's iteration order is any permutation of its keys.  Elapsed    *)
(* wall-clock time and rayon::current_num_threads() are inputs.  A panic   *)
(* is the terminal control state "panicked".  Docids are 0-based as in the *)
(* program; sequences are 1-based, so docid d lives at position d + 1.     *)
(***************************************************************************)
EXTENDS Integers, Sequences, FiniteSets, TLC

\* ---------------------------------------------------------------- bounds

MaxDocs == 3
MaxThreads == 3
MaxBudget == 2
MaxQueries == 2

\* Coordinates and weights documents and queries are drawn from.
Coords == {1, 2}
Weights == {-2, 1}

\* f32::MIN, the initial pruning threshold of the top-k scan.
F32_MIN == -4

\* inner_product_budget = None.
NoBudget == -1

\* top_k of a batch before any query of the batch has read it.
Unread == 0 - 1

\* HashMap<u32, f32>: a function from a subset of the coordinates to weights.
SparseVectors == UNION {[S -> Weights] : S \in SUBSET Coords}

\* Every order a HashMap's iterator can yield the keys of S in.
IterOrders(S) ==
    {s \in [1..Cardinality(S) -> S] : \A i, j \in 1..Cardinality(S) : i # j => s[i] # s[j]}

Min(a, b) == IF a <= b THEN a ELSE b

Abs(x) == IF x < 0 THEN -x ELSE x

VARIABLES
    inverted_index, \* Index.inverted_index: coordinate -> Vec<Posting>
    num_docs,       \* Index.num_docs
    parallel,       \* Index.parallel
    docs,           \* history: the documents inserted, in call order
    finalized,      \* history: finalize() was called since the last insert
    pc,             \* control state of the one retrieve call in flight
    query,          \* retrieve: the query map
    order,          \* retrieve: the sequence the coordinate loop iterates
    pos,            \* retrieve: position of the loop in order
    scores,         \* retrieve: the score buffer
    time_left,      \* retrieve: remaining budget, or NoBudget
    budget,         \* history: the budget retrieve was called with
    scored,         \* history: coordinates whose compute_dot_product ran
    chunks,         \* compute_dot_product: the (begin, end) partitions
    wdone,          \* compute_dot_product: postings consumed per worker
    writes,         \* history: <<worker, score index>> written this fork
    top_k,          \* retrieve: top_k
    result,         \* retrieve: the returned Vec<SearchResult>
    queries,        \* retrieve_parallel: the batch
    b_order,        \* per query: iteration order of its coordinates
    b_pos,          \* per query: loop position
    b_scores,       \* per query: its own score buffer
    b_left,         \* per query: its own remaining budget
    b_state,        \* per query: "scoring" | "select" | "done"
    b_results       \* retrieve_parallel: collected docid lists

index_vars == <<inverted_index, num_docs, parallel, docs, finalized>>
retrieve_vars == <<query, order, pos, scores, time_left, budget, scored,
                   chunks, wdone, writes, top_k, result>>
batch_vars == <<queries, b_order, b_pos, b_scores, b_left, b_state, b_results>>
vars == <<index_vars, pc, retrieve_vars, batch_vars>>

\* ------------------------------------------------------- index: building

\* Mutant: docids assigned from 1 instead of 0.
NewPostingFromOne(n, value) == [docid |-> n + 1, value |-> value]

\* Posting { docid: self.num_docs, value }
NewPosting(n, value) == [docid |-> n, value |-> value]

\* Mutant: the posting is put at the front of its store.
PushPostingFront(idx, coordinate, posting) ==
    IF coordinate \in DOMAIN idx
    THEN [idx EXCEPT ![coordinate] = <<posting>> \o @]
    ELSE [c \in DOMAIN idx \cup {coordinate} |->
             IF c = coordinate THEN <<posting>> ELSE idx[c]]

\* self.inverted_index.entry(coordinate).or_default().push(posting)
PushPosting(idx, coordinate, posting) ==
    IF coordinate \in DOMAIN idx
    THEN [idx EXCEPT ![coordinate] = Append(@, posting)]
    ELSE [c \in DOMAIN idx \cup {coordinate} |->
             IF c = coordinate THEN <<posting>> ELSE idx[c]]

\* The loop of insert over the document's (coordinate, value) pairs; it
\* touches each coordinate once, so the iteration order leaves no trace.
RECURSIVE InsertAll(_, _, _, _)
InsertAll(idx, document, left, n) ==
    IF left = {} THEN idx
    ELSE LET c == CHOOSE x \in left : TRUE
         IN InsertAll(PushPosting(idx, c, NewPosting(n, document[c])),
                      document, left \ {c}, n)

\* postings.sort_by_key(|posting| posting.docid): a stable sort, as
\* insertion of each element behind the last one that is not greater.
RECURSIVE SortByDocid(_)
SortByDocid(postings) ==
    IF Len(postings) <= 1 THEN postings
    ELSE LET front == SortByDocid(SubSeq(postings, 1, Len(postings) - 1))
             x == postings[Len(postings)]
             keep == Cardinality({i \in 1..Len(front) : front[i].docid <= x.docid})
         IN SubSeq(front, 1, keep) \o <<x>> \o SubSeq(front, keep + 1, Len(front))

\* The posting stores as finalize leaves them.
Sorted(idx) == [c \in DOMAIN idx |-> SortByDocid(idx[c])]

\* ------------------------------------------------------ index: scoring

\* Serial branch of compute_dot_product: one pass over the posting store.
RECURSIVE AccumulatePostings(_, _, _, _)
AccumulatePostings(postings, i, query_value, s) ==
    IF i > Len(postings) THEN s
    ELSE AccumulatePostings(postings, i + 1, query_value,
            [s EXCEPT ![postings[i].docid + 1] = @ + query_value * postings[i].value])

\* Mutant: the pass over the store starts at its second posting.
SerialDotProductFromSecond(idx, coordinate, query_value, s) ==
    IF coordinate \notin DOMAIN idx THEN s
    ELSE AccumulatePostings(idx[coordinate], 2, query_value, s)

SerialDotProduct(idx, coordinate, query_value, s) ==
    IF coordinate \notin DOMAIN idx THEN s
    ELSE AccumulatePostings(idx[coordinate], 1, query_value, s)

\* (scores.len() as f32 / partitions as f32).ceil() as usize
PartitionSize(length, partitions) == (length + partitions - 1) \div partitions

\* Mutant: the end of a chunk is not clamped to the buffer's length.
ChunkEndUnclamped(begin, partition_size, length) == begin + partition_size

\* let end = min(begin + partition_size, length)
ChunkEnd(begin, partition_size, length) == Min(begin + partition_size, length)

\* The loop over scores.chunks_mut(partition_size): one (begin, end) pair
\* per chunk; chunks_mut yields ceil(length / partition_size) chunks, each
\* of partition_size entries but the last.
RECURSIVE BuildChunks(_, _, _, _)
BuildChunks(begin, left, partition_size, length) ==
    IF left = 0 THEN <<>>
    ELSE LET end == ChunkEnd(begin, partition_size, length)
         IN <<[a |-> begin, b |-> end, len |-> Min(partition_size, left)]>>
            \o BuildChunks(end, left - Min(partition_size, left), partition_size, length)

\* postings.binary_search_by_key(key, |p| p.docid).unwrap_or_else(|x| x),
\* 0-based: the index of the match, or the insertion point.
RECURSIVE BinarySearch(_, _, _, _)
BinarySearch(postings, key, left, right) ==
    IF left >= right THEN left
    ELSE LET mid == left + (right - left) \div 2
             d == postings[mid + 1].docid
         IN IF d < key THEN BinarySearch(postings, key, mid + 1, right)
            ELSE IF d > key THEN BinarySearch(postings, key, left, mid)
            ELSE mid

\* Mutant: the sub-range of a partition starts behind docid a.
StartIndexAfter(postings, a) == BinarySearch(postings, a + 1, 0, Len(postings))

StartIndex(postings, a) == BinarySearch(postings, a, 0, Len(postings))

EndIndex(postings, b) == BinarySearch(postings, b, 0, Len(postings))

\* ------------------------------------------------------- top-k selection

\* Reverse<SearchResult>: ordered by score alone, reversed.
RevLe(x, y) == x.score >= y.score
RevLt(x, y) == x.score > y.score
RevGe(x, y) == x.score <= y.score

SatSub(a, b) == IF a >= b THEN a - b ELSE 0

\* BinaryHeap::sift_up on a 0-based hole position, e the element held out.
RECURSIVE SiftUpHole(_, _, _, _)
SiftUpHole(h, e, start, p) ==
    IF p > start
    THEN LET parent == (p - 1) \div 2
         IN IF RevLe(e, h[parent + 1])
            THEN [h EXCEPT ![p + 1] = e]
            ELSE SiftUpHole([h EXCEPT ![p + 1] = h[parent + 1]], e, start, parent)
    ELSE [h EXCEPT ![p + 1] = e]

\* BinaryHeap::push
HeapPush(h, item) == SiftUpHole(Append(h, item), item, 0, Len(h))

\* BinaryHeap::sift_down_to_bottom: the hole goes to a leaf, then sift_up.
RECURSIVE HoleToBottom(_, _, _)
HoleToBottom(h, p, end) ==
    LET child == 2 * p + 1
    IN IF child <= SatSub(end, 2)
       THEN LET c == IF RevLe(h[child + 1], h[child + 2]) THEN child + 1 ELSE child
            IN HoleToBottom([h EXCEPT ![p + 1] = h[c + 1]], c, end)
       ELSE IF child = end - 1
            THEN <<[h EXCEPT ![p + 1] = h[child + 1]], child>>
            ELSE <<h, p>>

SiftDownToBottom(h) ==
    LET e == h[1]
        r == HoleToBottom(h, 0, Len(h))
    IN SiftUpHole(r[1], e, 0, r[2])

\* BinaryHeap::pop: <<the greatest element, the heap left>>.
HeapPop(h) ==
    LET item == h[Len(h)]
        rest == SubSeq(h, 1, Len(h) - 1)
    IN IF Len(rest) = 0 THEN <<item, rest>>
       ELSE <<rest[1], SiftDownToBottom([rest EXCEPT ![1] = item])>>

\* BinaryHeap::sift_down_range(0, end)
RECURSIVE SiftDownRangeHole(_, _, _, _)
SiftDownRangeHole(h, e, p, end) ==
    LET child == 2 * p + 1
    IN IF child <= SatSub(end, 2)
       THEN LET c == IF RevLe(h[child + 1], h[child + 2]) THEN child + 1 ELSE child
            IN IF RevGe(e, h[c + 1])
               THEN [h EXCEPT ![p + 1] = e]
               ELSE SiftDownRangeHole([h EXCEPT ![p + 1] = h[c + 1]], e, c, end)
       ELSE IF child = end - 1 /\ RevLt(e, h[child + 1])
            THEN [h EXCEPT ![p + 1] = h[child + 1], ![child + 1] = e]
            ELSE [h EXCEPT ![p + 1] = e]

\* BinaryHeap::into_sorted_vec: ascending in Reverse order.
RECURSIVE SortDown(_, _)
SortDown(h, end) ==
    IF end > 1
    THEN LET e == end - 1
             swapped == [h EXCEPT ![1] = h[e + 1], ![e + 1] = h[1]]
         IN SortDown(SiftDownRangeHole(swapped, swapped[1], 0, e), e)
    ELSE h

IntoSortedVec(h) == SortDown(h, Len(h))

\* if score > threshold
Admits(score, threshold) == score > threshold

\* The scan of the score buffer, docid by docid, from position i.
RECURSIVE HeapScan(_, _, _, _, _)
HeapScan(s, i, heap, threshold, k) ==
    IF i > Len(s) THEN heap
    ELSE IF Admits(s[i], threshold)
         THEN LET pushed == HeapPush(heap, [docid |-> i - 1, score |-> s[i]])
              IN IF Len(pushed) > k
                 THEN LET popped == HeapPop(pushed)
                      IN HeapScan(s, i + 1, popped[2], popped[1].score, k)
                 ELSE HeapScan(s, i + 1, pushed, threshold, k)
         ELSE HeapScan(s, i + 1, heap, threshold, k)

\* Lines 169-182 of retrieve: the Vec<SearchResult> returned for a buffer.
TopK(s, k) == IntoSortedVec(HeapScan(s, 1, <<>>, F32_MIN, k))

\* ------------------------------------------------------- budget control

\* query.sort_by(|(_, v1), (_, v2)| v2.abs().partial_cmp(&v1.abs())...): a
\* stable sort of the iteration order by descending absolute weight.
RECURSIVE SortByAbsDesc(_, _)
SortByAbsDesc(seq, q) ==
    IF Len(seq) <= 1 THEN seq
    ELSE LET front == SortByAbsDesc(SubSeq(seq, 1, Len(seq) - 1), q)
             x == seq[Len(seq)]
             keep == Cardinality({i \in 1..Len(front) : Abs(q[front[i]]) >= Abs(q[x])})
         IN SubSeq(front, 1, keep) \o <<x>> \o SubSeq(front, keep + 1, Len(front))

\* time_left = if time_left > scoring_time { time_left - scoring_time }
\*             else { Duration::ZERO }
Charge(left, scoring_time) == IF left > scoring_time THEN left - scoring_time ELSE 0

\* ---------------------------------------------------------------- state

Zeros(n) == [i \in 1..n |-> 0]

\* Index::new(parallel), and no call in flight.
Init ==
    /\ inverted_index = <<>>
    /\ num_docs = 0
    /\ parallel \in BOOLEAN
    /\ docs = <<>>
    /\ finalized = FALSE
    /\ pc = "idle"
    /\ query = <<>>
    /\ order = <<>>
    /\ pos = 1
    /\ scores = <<>>
    /\ time_left = NoBudget
    /\ budget = NoBudget
    /\ scored = <<>>
    /\ chunks = <<>>
    /\ wdone = <<>>
    /\ writes = {}
    /\ top_k = 0
    /\ result = <<>>
    /\ queries = <<>>
    /\ b_order = <<>>
    /\ b_pos = <<>>
    /\ b_scores = <<>>
    /\ b_left = <<>>
    /\ b_state = <<>>
    /\ b_results = <<>>

\* Index::insert
Insert(document) ==
    /\ pc = "idle"
    /\ num_docs < MaxDocs
    /\ inverted_index' = InsertAll(inverted_index, document, DOMAIN document, num_docs)
    /\ num_docs' = num_docs + 1
    /\ docs' = Append(docs, document)
    /\ finalized' = FALSE
    /\ UNCHANGED <<parallel, pc, retrieve_vars, batch_vars>>

\* Index::finalize
Finalize ==
    /\ pc = "idle"
    /\ inverted_index' = Sorted(inverted_index)
    /\ finalized' = TRUE
    /\ UNCHANGED <<num_docs, parallel, docs, pc, retrieve_vars, batch_vars>>

\* Index::retrieve up to the coordinate loop: the score buffer, and with a
\* budget the sorted copy of the query.
RetrieveBegin(q, iter, inner_product_budget) ==
    /\ pc = "idle"
    /\ query' = q
    /\ order' = IF inner_product_budget = NoBudget THEN iter ELSE SortByAbsDesc(iter, q)
    /\ pos' = 1
    /\ scores' = Zeros(num_docs)
    /\ time_left' = inner_product_budget
    /\ budget' = inner_product_budget
    /\ scored' = <<>>
    /\ pc' = IF Len(iter) = 0 THEN "select" ELSE "loop"
    /\ UNCHANGED <<index_vars, chunks, wdone, writes, top_k, result, batch_vars>>

\* Scoring times the clock can report for one compute_dot_product call.
ScoringTimes(left) == IF left = NoBudget THEN {0} ELSE 0..MaxBudget

\* The rest of a loop iteration once compute_dot_product has returned:
\* the budget is charged and the loop breaks or goes on.
AfterCoordinate(scoring_time) ==
    LET left == IF time_left = NoBudget THEN NoBudget ELSE Charge(time_left, scoring_time)
    IN /\ time_left' = left
       /\ scored' = Append(scored, order[pos])
       /\ IF left = 0 \/ pos = Len(order)
          THEN pc' = "select" /\ pos' = pos
          ELSE pc' = "loop" /\ pos' = pos + 1

\* One loop iteration of retrieve on a serial index.
ScoreSerial ==
    /\ pc = "loop"
    /\ ~parallel
    /\ scores' = SerialDotProduct(inverted_index, order[pos], query[order[pos]], scores)
    /\ \E scoring_time \in ScoringTimes(time_left) : AfterCoordinate(scoring_time)
    /\ UNCHANGED <<index_vars, query, order, budget, chunks, wdone, writes,
                   top_k, result, batch_vars>>

\* Parallel branch of compute_dot_product up to par_iter_mut: the output
\* space is partitioned; chunks_mut panics on a chunk size of zero.
Partition ==
    /\ pc = "loop"
    /\ parallel
    /\ \E partitions \in 1..MaxThreads :
         LET partition_size == PartitionSize(Len(scores), partitions)
         IN IF partition_size = 0
            THEN /\ pc' = "panicked"
                 /\ UNCHANGED <<chunks, wdone>>
            ELSE /\ pc' = "workers"
                 /\ chunks' = BuildChunks(0, Len(scores), partition_size, Len(scores))
                 /\ wdone' = [w \in 1..Len(chunks') |-> 0]
    /\ writes' = {}
    /\ UNCHANGED <<index_vars, query, order, pos, scores, time_left, budget,
                   scored, top_k, result, batch_vars>>

\* The postings a worker's closure iterates: postings[start_index..end_index].
WorkerFirst(w) == StartIndex(inverted_index[order[pos]], chunks[w].a)
WorkerLast(w) == EndIndex(inverted_index[order[pos]], chunks[w].b)

WorkerHasStore == order[pos] \in DOMAIN inverted_index

WorkerPending(w) ==
    /\ WorkerHasStore
    /\ \/ WorkerFirst(w) > WorkerLast(w)
       \/ WorkerFirst(w) + wdone[w] < WorkerLast(w)

\* The posting worker w accumulates next, and the slot of its slice.
WorkerPosting(w) == inverted_index[order[pos]][WorkerFirst(w) + wdone[w] + 1]
WorkerSlot(w) == WorkerPosting(w).docid - chunks[w].a

\* One accumulation of one worker of par_iter_mut().for_each; slicing with
\* start > end and indexing outside the chunk panic.
WorkerStep(w) ==
    /\ pc = "workers"
    /\ w \in 1..Len(chunks)
    /\ WorkerPending(w)
    /\ IF \/ WorkerFirst(w) > WorkerLast(w)
          \/ WorkerSlot(w) < 0
          \/ WorkerSlot(w) >= chunks[w].len
       THEN /\ pc' = "panicked"
            /\ UNCHANGED <<scores, wdone, writes>>
       ELSE /\ scores' = [scores EXCEPT ![chunks[w].a + WorkerSlot(w) + 1] =
                             @ + query[order[pos]] * WorkerPosting(w).value]
            /\ wdone' = [wdone EXCEPT ![w] = @ + 1]
            /\ writes' = writes \cup {<<w, chunks[w].a + WorkerSlot(w)>>}
            /\ pc' = pc
    /\ UNCHANGED <<index_vars, query, order, pos, time_left, budget, scored,
                   chunks, top_k, result, batch_vars>>

\* The join of for_each, and the rest of the loop iteration.
Join ==
    /\ pc = "workers"
    /\ \A w \in 1..Len(chunks) : ~WorkerPending(w)
    /\ \E scoring_time \in ScoringTimes(time_left) : AfterCoordinate(scoring_time)
    /\ chunks' = <<>>
    /\ wdone' = <<>>
    /\ UNCHANGED <<index_vars, query, order, scores, budget, writes,
                   top_k, result, batch_vars>>

\* Lines 169-182 of retrieve.
Select(k) ==
    /\ pc = "select"
    /\ k <= num_docs + 1
    /\ top_k' = k
    /\ result' = TopK(scores, k)
    /\ pc' = "done"
    /\ UNCHANGED <<index_vars, query, order, pos, scores, time_left, budget,
                   scored, chunks, wdone, writes, batch_vars>>

\* The call returns; its locals are dropped.
Return ==
    /\ pc \in {"done", "batch_done"}
    /\ pc' = "idle"
    /\ query' = <<>>
    /\ order' = <<>>
    /\ pos' = 1
    /\ scores' = <<>>
    /\ time_left' = NoBudget
    /\ budget' = NoBudget
    /\ scored' = <<>>
    /\ chunks' = <<>>
    /\ wdone' = <<>>
    /\ writes' = {}
    /\ top_k' = 0
    /\ result' = <<>>
    /\ queries' = <<>>
    /\ b_order' = <<>>
    /\ b_pos' = <<>>
    /\ b_scores' = <<>>
    /\ b_left' = <<>>
    /\ b_state' = <<>>
    /\ b_results' = <<>>
    /\ UNCHANGED index_vars

\* ------------------------------------------------ lib.rs: retrieve_parallel

\* The position of the output a parallel map's collect() puts item i at.
CollectSlot(i, n) == i

\* Mutant: every query of the batch scores into one buffer.
SharedBuffer(i) == 1

\* The buffer query i of the batch scores into: the Vec its own call of
\* Index::retrieve allocates.
OwnBuffer(i) == i

\* r.into_iter().map(|f| f.docid).collect()
Docids(r) == [j \in 1..Len(r) |-> r[j].docid]

\* LinscanIndex::retrieve_parallel up to the fork: one call of
\* Index::retrieve per query; LinscanIndex holds a serial index.
BatchBegin(qs, iters, inner_product_budget) ==
    /\ pc = "idle"
    /\ ~parallel
    /\ queries' = qs
    /\ b_order' = [i \in 1..Len(qs) |->
                     IF inner_product_budget = NoBudget THEN iters[i]
                     ELSE SortByAbsDesc(iters[i], qs[i])]
    /\ b_pos' = [i \in 1..Len(qs) |-> 1]
    /\ b_scores' = [i \in 1..Len(qs) |-> Zeros(num_docs)]
    /\ b_left' = [i \in 1..Len(qs) |-> inner_product_budget]
    /\ b_state' = [i \in 1..Len(qs) |->
                     IF Len(iters[i]) = 0 THEN "select" ELSE "scoring"]
    /\ b_results' = [i \in 1..Len(qs) |-> <<>>]
    /\ top_k' = Unread
    /\ budget' = inner_product_budget
    /\ pc' = "batch"
    /\ UNCHANGED <<index_vars, query, order, pos, scores, time_left, scored,
                   chunks, wdone, writes, result>>

\* One loop iteration of the retrieve call of query i.
BatchScore(i) ==
    /\ pc = "batch"
    /\ i \in 1..Len(queries)
    /\ b_state[i] = "scoring"
    /\ LET c == b_order[i][b_pos[i]]
       IN b_scores' = [b_scores EXCEPT ![OwnBuffer(i)] =
              SerialDotProduct(inverted_index, c, queries[i][c], @)]
    /\ \E scoring_time \in ScoringTimes(b_left[i]) :
         LET left == IF b_left[i] = NoBudget THEN NoBudget
                     ELSE Charge(b_left[i], scoring_time)
         IN /\ b_left' = [b_left EXCEPT ![i] = left]
            /\ IF left = 0 \/ b_pos[i] = Len(b_order[i])
               THEN b_state' = [b_state EXCEPT ![i] = "select"] /\ b_pos' = b_pos
               ELSE b_state' = b_state /\ b_pos' = [b_pos EXCEPT ![i] = @ + 1]
    /\ UNCHANGED <<index_vars, pc, retrieve_vars, queries, b_order, b_results>>

\* The top-k selection of query i, and its place in the collected output.
\* top_k is one argument for the whole batch; its value is drawn when the
\* first query reads it.
BatchSelect(i, k) ==
    /\ pc = "batch"
    /\ i \in 1..Len(queries)
    /\ b_state[i] = "select"
    /\ k <= num_docs + 1
    /\ top_k \in {Unread, k}
    /\ top_k' = k
    /\ b_results' = [b_results EXCEPT ![CollectSlot(i, Len(queries))] =
                        Docids(TopK(b_scores[OwnBuffer(i)], k))]
    /\ b_state' = [b_state EXCEPT ![i] = "done"]
    /\ UNCHANGED <<index_vars, pc, query, order, pos, scores, time_left, budget,
                   scored, chunks, wdone, writes, result, queries, b_order,
                   b_pos, b_scores, b_left>>

\* collect() returns once every query is done.
BatchJoin ==
    /\ pc = "batch"
    /\ \A i \in 1..Len(queries) : b_state[i] = "done"
    /\ pc' = "batch_done"
    /\ UNCHANGED <<index_vars, retrieve_vars, batch_vars>>

\* Batches of one to MaxQueries queries, with an iteration order for each.
Batches == UNION {[1..n -> SparseVectors] : n \in 1..MaxQueries}
BatchOrders(qs) ==
    {os \in [1..Len(qs) -> UNION {IterOrders(S) : S \in SUBSET Coords}] :
        \A i \in 1..Len(qs) : os[i] \in IterOrders(DOMAIN qs[i])}

Budgets == {NoBudget} \cup 0..MaxBudget

\* The documents of the specifications with workers: every coordinate set,
\* one weight.
OneWeightDocuments == UNION {[S -> {-2}] : S \in SUBSET Coords}

InitSerial == Init /\ ~parallel

InitParallel == Init /\ parallel

InsertNext == \E document \in SparseVectors : Insert(document)

InsertOneWeight == \E document \in OneWeightDocuments : Insert(document)

BuildNext == InsertNext \/ Finalize

SelectNext == \E k \in 0..(MaxDocs + 1) : Select(k)

SerialNext ==
    \/ \E q \in SparseVectors : \E iter \in IterOrders(DOMAIN q) :
         RetrieveBegin(q, iter, NoBudget)
    \/ ScoreSerial
    \/ SelectNext

BudgetNext ==
    \/ \E q \in SparseVectors : \E iter \in IterOrders(DOMAIN q) :
         \E b \in 0..MaxBudget : RetrieveBegin(q, iter, b)
    \/ ScoreSerial
    \/ SelectNext

ParallelNext ==
    \/ \E q \in SparseVectors : \E iter \in IterOrders(DOMAIN q) :
         RetrieveBegin(q, iter, NoBudget)
    \/ Partition
    \/ \E w \in 1..MaxDocs : WorkerStep(w)
    \/ Join
    \/ SelectNext

RetrieveNext ==
    \/ \E q \in SparseVectors : \E iter \in IterOrders(DOMAIN q) :
         \E b \in Budgets : RetrieveBegin(q, iter, b)
    \/ ScoreSerial
    \/ Partition
    \/ \E w \in 1..MaxDocs : WorkerStep(w)
    \/ Join
    \/ SelectNext

BatchNext ==
    \/ \E qs \in Batches : \E iters \in BatchOrders(qs) :
         BatchBegin(qs, iters, NoBudget)
    \/ \E i \in 1..MaxQueries : BatchScore(i)
    \/ \E i \in 1..MaxQueries : \E k \in 0..(MaxDocs + 1) : BatchSelect(i, k)
    \/ BatchJoin

Next == BuildNext \/ RetrieveNext \/ BatchNext \/ Return

\* The whole system: the index, single queries in both modes, batches.
Spec == Init /\ [][Next]_vars

\* Building the index: insert and finalize in any order.
SpecBuild == Init /\ [][BuildNext]_vars

\* A serial index built by insert, queried without a budget.
SpecSerial == InitSerial /\ [][InsertNext \/ SerialNext \/ Return]_vars

\* A serial index built by insert, queried with a budget.
SpecBudget == InitSerial /\ [][InsertNext \/ BudgetNext \/ Return]_vars

\* A parallel index built by insert and finalize in any order, queried
\* without a budget.
SpecParallel ==
    InitParallel /\ [][InsertOneWeight \/ Finalize \/ ParallelNext \/ Return]_vars

\* LinscanIndex of lib.rs: insert and retrieve_parallel (without a budget)
\* on a serial index.
SpecBatch == InitSerial /\ [][InsertOneWeight \/ BatchNext \/ Return]_vars

\* ----------------------------------------------------------- properties

RECURSIVE SumProducts(_, _, _)
SumProducts(S, document, q) ==
    IF S = {} THEN 0
    ELSE LET c == CHOOSE x \in S : TRUE
         IN q[c] * document[c] + SumProducts(S \ {c}, document, q)

\* The inner product of a document and a query over the coordinates in S
\* that both have.
InnerProduct(document, q, S) ==
    SumProducts(DOMAIN document \cap DOMAIN q \cap S, document, q)

Range(seq) == {seq[i] : i \in 1..Len(seq)}

\* C1: on a serial index built by insert alone, a retrieve without budget
\* hands top-k selection, for every docid d below num_docs, the exact inner
\* product of document d and the query; a query coordinate without a
\* posting store adds nothing and does not fail the call.
C1_SerialScoreIsInnerProduct ==
    /\ pc # "panicked"
    /\ (pc \in {"select", "done"} /\ budget = NoBudget) =>
          /\ Len(scores) = num_docs
          /\ \A d \in 0..(num_docs - 1) :
                scores[d + 1] = InnerProduct(docs[d + 1], query, Coords)

C1_Witness ==
    /\ pc = "done"
    /\ budget = NoBudget
    /\ num_docs = 2
    /\ \E c \in DOMAIN query : c \notin DOMAIN inverted_index
    /\ \E c \in DOMAIN query : c \in DOMAIN inverted_index /\ Len(inverted_index[c]) = 2
    /\ scores[1] # 0
    /\ scores[2] # scores[1]

\* The returned sequence is in descending order of score.
SortedDescending(r) == \A i, j \in 1..Len(r) : i < j => r[i].score >= r[j].score

\* Every returned entry is a document with its score, no document twice.
FromBuffer(r, s) ==
    /\ \A i \in 1..Len(r) : r[i].docid \in 0..(Len(s) - 1) /\ r[i].score = s[r[i].docid + 1]
    /\ \A i, j \in 1..Len(r) : i # j => r[i].docid # r[j].docid

\* Every returned score is at least the score of every document left out.
Dominates(r, s) ==
    \A i \in 1..Len(r) : \A d \in 0..(Len(s) - 1) :
        d \notin {r[j].docid : j \in 1..Len(r)} => r[i].score >= s[d + 1]

\* C2: whatever the score buffer and top_k (0 and top_k >= num_docs
\* included), retrieve returns exactly min(top_k, num_docs) entries, in
\* descending order of score, each scoring at least as high as every
\* document that is not returned.
C2_TopKCorrect ==
    pc = "done" =>
       /\ Len(result) = Min(top_k, num_docs)
       /\ SortedDescending(result)
       /\ FromBuffer(result, scores)
       /\ Dominates(result, scores)

\* The part of C2 the code keeps: at most min(top_k, num_docs) entries,
\* exactly that many when no score is as low as f32::MIN, sorted, dominant.
TopKAboveMin ==
    pc = "done" =>
       /\ Len(result) <= Min(top_k, num_docs)
       /\ (\A i \in 1..Len(scores) : scores[i] > F32_MIN) =>
              Len(result) = Min(top_k, num_docs)
       /\ SortedDescending(result)
       /\ FromBuffer(result, scores)
       /\ Dominates(result, scores)

\* The serial path applied to the coordinates of seq in turn.
RECURSIVE SerialScores(_, _, _)
SerialScores(seq, q, s) ==
    IF seq = <<>> THEN s
    ELSE SerialScores(Tail(seq), q,
                      SerialDotProduct(inverted_index, Head(seq), q[Head(seq)], s))

\* C3: on a finalized index with at least one document, whatever partition
\* count each coordinate is scored with, the score buffer of the parallel
\* path after each coordinate, and the one handed to top-k selection, is
\* docid for docid the buffer the serial path produces for the same
\* coordinates: no posting skipped, counted twice or moved to another docid.
C3_ParallelEqualsSerial ==
    (parallel /\ finalized /\ num_docs >= 1) =>
       /\ pc # "panicked"
       /\ pc \in {"loop", "select", "done"} =>
             scores = SerialScores(scored, query, Zeros(num_docs))

C3_Witness ==
    /\ parallel /\ finalized
    /\ pc = "select"
    /\ num_docs = 3
    /\ Len(scored) = 2
    /\ \A d \in 1..3 : scores[d] # 0
    /\ scores[1] # scores[2] /\ scores[2] # scores[3]

\* Each inserted document's docid is its 0-based position in call order, and
\* the store of coordinate c lists, in that order, exactly the documents
\* having c, each once, with the document's weight.
StoreOf(c) ==
    LET holders == {d \in 0..(num_docs - 1) : c \in DOMAIN docs[d + 1]}
    IN IF holders = {} THEN c \notin DOMAIN inverted_index
       ELSE /\ c \in DOMAIN inverted_index
            /\ Len(inverted_index[c]) = Cardinality(holders)
            /\ {inverted_index[c][j].docid : j \in 1..Len(inverted_index[c])} = holders
            /\ \A j \in 1..Len(inverted_index[c]) :
                  inverted_index[c][j].value = docs[inverted_index[c][j].docid + 1][c]
            /\ \A j \in 1..(Len(inverted_index[c]) - 1) :
                  inverted_index[c][j].docid < inverted_index[c][j + 1].docid

C5_ZeroBudgetScoresNothing ==
    (budget = 0 /\ pc \in {"select", "done"}) =>
       /\ scored = <<>>
       /\ scores = Zeros(num_docs)

\* The absolute weights along the loop order never increase.
DescendingAbs(seq, q) ==
    \A i, j \in 1..Len(seq) : i < j => Abs(q[seq[i]]) >= Abs(q[seq[j]])

\* What holds of the budgeted loop whatever the scoring times: descending
\* |weight| order, the scored coordinates a prefix of it, the scores the
\* sum of that prefix's contributions, the remaining budget never negative.
BudgetPrefix ==
    (budget # NoBudget /\ pc \in {"loop", "select", "done"}) =>
       /\ DescendingAbs(order, query)
       /\ Range(order) = DOMAIN query
       /\ scored = SubSeq(order, 1, Len(scored))
       /\ time_left >= 0
       /\ \A d \in 0..(num_docs - 1) :
             scores[d + 1] = InnerProduct(docs[d + 1], query, Range(scored))

\* C6: with a budget, coordinates are scored one at a time in descending
\* order of absolute weight, the remaining budget never increases and never
\* goes below zero, no coordinate is scored once the remaining budget has
\* reached zero, and the scored coordinates are a prefix of the ordered
\* list whose contributions the scores are the sum of.
C6_BudgetedPrefix ==
    [][(budget # NoBudget /\ pc = "loop") =>
          /\ BudgetPrefix'
          /\ time_left' <= time_left
          /\ scored' # scored => time_left > 0]_vars

\* C6 without "no coordinate is scored at a remaining budget of zero".
BudgetMonotone ==
    [][(budget # NoBudget /\ pc = "loop") =>
          /\ BudgetPrefix'
          /\ time_left' <= time_left
          /\ (scored' # scored /\ time_left = 0) => scored = <<>>]_vars

\* C7: on an index without documents a retrieve does not fail and returns
\* an empty sequence, whatever the query, top_k, budget and mode.
C7_EmptyIndexReturnsEmpty ==
    num_docs = 0 =>
       /\ pc # "panicked"
       /\ pc = "done" => result = <<>>

\* The scores and the result of one retrieve of query q, without budget.
RECURSIVE ScoreAll(_, _, _)
ScoreAll(S, q, s) ==
    IF S = {} THEN s
    ELSE LET c == CHOOSE x \in S : TRUE
         IN ScoreAll(S \ {c}, q, SerialDotProduct(inverted_index, c, q[c], s))

RetrieveAlone(q, k) == Docids(TopK(ScoreAll(DOMAIN q, q, Zeros(num_docs)), k))

\* C8: retrieve_parallel returns one result list per query, in input order:
\* under every interleaving of the per-query workers, list i is what a
\* single retrieve of query i (same top_k, no budget) returns on the index.
C8_BatchIsPositional ==
    /\ pc = "batch" =>
          \A i \in 1..Len(queries) :
              b_state[i] = "done" => b_results[i] = RetrieveAlone(queries[i], top_k)
    /\ pc = "batch_done" =>
          /\ Len(b_results) = Len(queries)
          /\ \A i \in 1..Len(queries) : b_results[i] = RetrieveAlone(queries[i], top_k)

C8_Witness ==
    /\ pc = "batch_done"
    /\ Len(queries) = 2
    /\ num_docs = 3
    /\ top_k = 2
    /\ b_results[1] # b_results[2]
    /\ \A i \in 1..2 : Len(b_order[i]) = 2

\* The chunks are contiguous, disjoint, non-empty and cover [0, num_docs);
\* each slice is as long as its range.
ChunksPartition ==
    /\ Len(chunks) >= 1
    /\ chunks[1].a = 0
    /\ chunks[Len(chunks)].b = num_docs
    /\ \A w \in 1..Len(chunks) : chunks[w].a < chunks[w].b
    /\ \A w \in 1..Len(chunks) : chunks[w].len = chunks[w].b - chunks[w].a
    /\ \A w \in 1..(Len(chunks) - 1) : chunks[w].b = chunks[w + 1].a

\* C9: while the workers of one coordinate run, their partitions [a, b) are
\* pairwise disjoint, contiguous and cover exactly [0, num_docs); every
\* write lands inside the writer's own slice, so no two workers write one
\* entry and no write is out of bounds (no worker panics).
C9_DisjointPartitions ==
    /\ pc = "workers" =>
          /\ ChunksPartition
          /\ \A w \in 1..Len(chunks) :
                WorkerPending(w) =>
                   /\ WorkerFirst(w) <= WorkerLast(w)
                   /\ WorkerSlot(w) >= 0
                   /\ WorkerSlot(w) < chunks[w].len
          /\ \A x \in writes : x[2] >= chunks[x[1]].a /\ x[2] < chunks[x[1]].b
          /\ \A x, y \in writes : x[2] = y[2] => x[1] = y[1]
    /\ pc = "panicked" => num_docs = 0

C9_Witness ==
    /\ pc = "workers"
    /\ num_docs = 3
    /\ Len(chunks) = 2
    /\ chunks[2].len = 1
    /\ Cardinality(writes) = 3
    /\ Cardinality({x[1] : x \in writes}) = 2

\* Every posting store is strictly ascending by docid, below num_docs.
StoresAscending ==
    \A c \in DOMAIN inverted_index :
        /\ \A j \in 1..Len(inverted_index[c]) : inverted_index[c][j].docid < num_docs
        /\ \A j \in 1..(Len(inverted_index[c]) - 1) :
              inverted_index[c][j].docid < inverted_index[c][j + 1].docid

\* C10: whatever the order of insert and finalize calls, and also without
\* finalize, every posting store is strictly ascending by docid with every
\* docid below num_docs; finalize therefore changes neither num_docs nor
\* the content or order of any store (and is idempotent).
C10_StoresAscendingFinalizeNoOp ==
    /\ []StoresAscending
    /\ [][finalized' => (inverted_index' = inverted_index /\ num_docs' = num_docs)]_vars

C10_Witness ==
    /\ finalized
    /\ num_docs = 3
    /\ \E c \in DOMAIN inverted_index : Len(inverted_index[c]) = 3

=============================================================================
